---- MODULE Spec2Model ----
(***************************************************************************)
(* Iris classification service.  One process is modelled; it is either the *)
(* serverless handler (cloud_function/main.py) or the web-framework app    *)
(* (module3/milestone2/app/app.py).  Both keep the classifier in a module  *)
(* level global called `model`.  Requests are served by worker threads of  *)
(* the one process; a step of a thread ends at each access to the global.  *)
(***************************************************************************)
EXTENDS Integers, Sequences, FiniteSets, TLC

VARIABLES deployment, artifact, proc, model, loads, thr

vars == <<deployment, artifact, proc, model, loads, thr>>

\* ---------------------------------------------------------------- bounds
NumThreads == 2
MaxLen == 5
MaxLoads == 2

Threads == 1..NumThreads

\* ------------------------------------------------------ program constants
FeatureCount == 4
NumClasses == 3

class_names == <<"setosa", "versicolor", "virginica">>

\* ------------------------------------------------------------ JSON values
\* A value of the `features` key: its Python type and, for sized values,
\* its elements ("num" a finite JSON number, "inf" a JSON number such as
\* 1e999 that json.loads parses to float('inf'), "str" a non-numeric string,
\* "chr" a character of a string).  Lists of every length up to MaxLen are
\* drawn, all finite or with a non-numeric last element, and lists of
\* numbers with a non-finite first element; strings of length 0,
\* FeatureCount and MaxLen.
NumList(n) == [i \in 1..n |-> "num"]
InfFirst(n) == [i \in 1..n |-> IF i = 1 THEN "inf" ELSE "num"]
StrLast(n) == [i \in 1..n |-> IF i = n THEN "str" ELSE "num"]
Chars(n) == [i \in 1..n |-> "chr"]

NoFeat == [t |-> "null", elems |-> <<>>]

FeatureValues ==
    {[t |-> k, elems |-> <<>>] : k \in {"null", "num", "bool"}}
    \cup {[t |-> "str", elems |-> Chars(n)] : n \in {0, FeatureCount, MaxLen}}
    \cup {[t |-> "list", elems |-> NumList(n)] : n \in 0..MaxLen}
    \cup {[t |-> "list", elems |-> StrLast(n)] : n \in (FeatureCount - 1)..MaxLen}
    \cup {[t |-> "list", elems |-> InfFirst(n)] : n \in {FeatureCount, MaxLen}}

\* What request.get_json(silent=True) returns: None ("none") or a parsed JSON
\* value.  truthy is Python truthiness of the value, has is the result of
\* `'features' in value` where that is defined, feat is value['features'].
Bodies ==
    {[t |-> "none", truthy |-> FALSE, has |-> FALSE, feat |-> NoFeat]}
    \cup {[t |-> "object", truthy |-> b, has |-> FALSE, feat |-> NoFeat] : b \in BOOLEAN}
    \cup {[t |-> "object", truthy |-> TRUE, has |-> TRUE, feat |-> f] : f \in FeatureValues}
    \cup {[t |-> k, truthy |-> TRUE, has |-> FALSE, feat |-> NoFeat] :
            k \in {"array", "string", "number", "bool"}}
    \cup {[t |-> k, truthy |-> FALSE, has |-> FALSE, feat |-> NoFeat] :
            k \in {"array", "number"}}
    \cup {[t |-> k, truthy |-> TRUE, has |-> TRUE, feat |-> NoFeat] : k \in {"array", "string"}}

NoBody == [t |-> "none", truthy |-> FALSE, has |-> FALSE, feat |-> NoFeat]

CfRequests ==
    {[method |-> m, path |-> "/", body |-> NoBody] : m \in {"OPTIONS", "GET"}}
    \cup {[method |-> "POST", path |-> "/", body |-> b] : b \in Bodies}

NoReq == [method |-> "", path |-> "", body |-> NoBody]

\* -------------------------------------------------------------- responses
NoExc == [type |-> "", msg |-> ""]

Response(status, headers, json, keys) ==
    [status |-> status, headers |-> headers, json |-> json, keys |-> keys,
     error |-> "", type |-> "", received |-> -1, prediction |-> -1,
     class_name |-> "", probabilities |-> <<>>, message |-> "",
     body_status |-> "", text |-> ""]

NoResp == Response(0, {}, FALSE, {})

PreflightHeaders ==
    {<<"Access-Control-Allow-Origin", "*">>,
     <<"Access-Control-Allow-Methods", "POST">>,
     <<"Access-Control-Allow-Headers", "Content-Type">>,
     <<"Access-Control-Max-Age", "3600">>}

MainHeadersDropped == {}

MainHeaders == {<<"Access-Control-Allow-Origin", "*">>}

Preflight204 == Response(204, PreflightHeaders, FALSE, {})

Missing400 ==
    [Response(400, MainHeaders, TRUE, {"error", "expected_format"})
        EXCEPT !.error = "Missing features in request body"]

Length400(n) ==
    [Response(400, MainHeaders, TRUE, {"error", "received"})
        EXCEPT !.error = "Features must contain exactly 4 values", !.received = n]

Error500Untyped(e) ==
    [Response(500, MainHeaders, TRUE, {"error", "type"})
        EXCEPT !.error = e.msg, !.type = "Exception"]

Error500(e) ==
    [Response(500, MainHeaders, TRUE, {"error", "type"})
        EXCEPT !.error = e.msg, !.type = e.type]

ClassNameShifted(p) == class_names[((p + 1) % NumClasses) + 1]

ClassName(p) == class_names[p + 1]

ProbaOf(p) == [i \in 1..NumClasses |-> IF i = p + 1 THEN 80 ELSE 10]

Result(p) == [prediction |-> p, class_name |-> ClassName(p), probabilities |-> ProbaOf(p)]

Ok200(r, headers) ==
    [Response(200, headers, TRUE, {"prediction", "class_name", "probabilities"})
        EXCEPT !.prediction = r.prediction, !.class_name = r.class_name,
               !.probabilities = r.probabilities]

\* ------------------------------------------------------------- classifier
\* The classifier is the deserialized artifact model.pkl, which is not part
\* of the source: Classes, ProbaOf, Predictable and PredictError follow the
\* specification's Classifier and PredictionResult (a class index 0..2 and
\* 3 probabilities for one sample of FeatureCount numbers) and the input
\* validation of the estimator's predict, which raises ValueError on a
\* sample that is not FeatureCount finite numbers (inf included).
Classes == 0..(NumClasses - 1)

Predictable(f) ==
    /\ f.t = "list"
    /\ Len(f.elems) = FeatureCount
    /\ \A i \in 1..Len(f.elems) : f.elems[i] = "num"

PredictError == [type |-> "ValueError", msg |-> "invalid input for classifier"]

LoadError == [type |-> "FileNotFoundError", msg |-> "No such file or directory: model.pkl"]

\* ------------------------------------------------------ serverless handler
\* Lines 45-60 of the handler: the outcome of reading and validating the body.
CfValidate(j) ==
    IF ~j.truthy THEN "missing"
    ELSE IF j.t \in {"number", "bool"} THEN "not_iterable"
    ELSE IF ~j.has THEN "missing"
    ELSE IF j.t # "object" THEN "bad_index"
    ELSE IF j.feat.t \notin {"str", "list"} THEN "no_len"
    ELSE IF Len(j.feat.elems) # FeatureCount THEN "length"
    ELSE "ok"

ValidateError(o) ==
    [type |-> "TypeError",
     msg |-> CASE o = "not_iterable" -> "argument of this type is not iterable"
               [] o = "bad_index" -> "indices must be integers"
               [] OTHER -> "object has no len()"]

Idle == [pc |-> "idle", req |-> NoReq, clf |-> 0, resp |-> NoResp,
         ran |-> FALSE, tried |-> 0, raised |-> NoExc]

Done(s, resp) == [s EXCEPT !.pc = "done", !.resp = resp]

\* The handler up to the call of load_model (lines 29-63).
CfEnter(req) ==
    LET s == [Idle EXCEPT !.req = req]
        o == CfValidate(req.body)
    IN  IF req.method = "OPTIONS" THEN Done(s, Preflight204)
        ELSE IF o = "missing" THEN Done(s, Missing400)
        ELSE IF o = "length" THEN Done(s, Length400(Len(req.body.feat.elems)))
        ELSE IF o = "ok" THEN [s EXCEPT !.pc = "check"]
        ELSE Done([s EXCEPT !.raised = ValidateError(o)], Error500(ValidateError(o)))

CfRequestEagerLoad(t, req) ==
    /\ deployment = "cloud_function"
    /\ proc = "serving"
    /\ thr[t].pc = "idle"
    /\ thr' = [thr EXCEPT ![t] = CfEnter(req)]
    /\ IF model = 0 /\ artifact /\ loads < MaxLoads /\ req.method # "OPTIONS"
       THEN model' = loads + 1 /\ loads' = loads + 1
       ELSE UNCHANGED <<model, loads>>
    /\ UNCHANGED <<deployment, artifact, proc>>

CfRequest(t, req) ==
    /\ deployment = "cloud_function"
    /\ proc = "serving"
    /\ thr[t].pc = "idle"
    /\ thr' = [thr EXCEPT ![t] = CfEnter(req)]
    /\ UNCHANGED <<deployment, artifact, proc, model, loads>>

\* load_model line 13: `if model is None`.
CfCheckCache(t) ==
    /\ thr[t].pc = "check"
    /\ thr' = [thr EXCEPT ![t].pc = IF model = 0 THEN "loading" ELSE "return"]
    /\ UNCHANGED <<deployment, artifact, proc, model, loads>>

\* The state of the thread and of the cache after line 16,
\* `model = joblib.load(model_path)`; a raise is caught at line 82.
LoadStep(s, readable, fresh, cached) ==
    IF readable
    THEN [thread |-> [s EXCEPT !.pc = "return", !.tried = @ + 1], cache |-> fresh]
    ELSE [thread |-> Done([s EXCEPT !.tried = @ + 1, !.raised = LoadError],
                          Error500(LoadError)),
          cache |-> cached]

CfLoad(t) ==
    /\ thr[t].pc = "loading"
    /\ loads < MaxLoads
    /\ loads' = loads + 1
    /\ LET r == LoadStep(thr[t], artifact, loads + 1, model)
       IN  /\ thr' = [thr EXCEPT ![t] = r.thread]
           /\ model' = r.cache
    /\ UNCHANGED <<deployment, artifact, proc>>

\* Lines 66-80 (and 82-86 when predict raises) on the classifier clf.
Infer(s, clf, p, headers) ==
    IF Predictable(s.req.body.feat)
    THEN Done([s EXCEPT !.clf = clf, !.ran = TRUE], Ok200(Result(p), headers))
    ELSE Done([s EXCEPT !.clf = clf, !.ran = TRUE, !.raised = PredictError],
              Error500(PredictError))

\* load_model line 17 `return model`, then inference.
CfInfer(t) ==
    /\ thr[t].pc = "return"
    /\ \E p \in Classes :
          thr' = [thr EXCEPT ![t] = Infer(thr[t], model, p, MainHeaders)]
    /\ UNCHANGED <<deployment, artifact, proc, model, loads>>

\* ---------------------------------------------------------- framework app
\* Import of the module, lines 12-13: `model = joblib.load(MODEL_PATH)`.
\* A raise ends the process before it serves anything.
AppStartup ==
    /\ deployment = "app"
    /\ proc = "starting"
    /\ loads' = loads + 1
    /\ IF artifact
       THEN model' = loads + 1 /\ proc' = "serving"
       ELSE model' = model /\ proc' = "crashed"
    /\ UNCHANGED <<deployment, artifact, thr>>

RootBody ==
    [Response(200, {}, TRUE, {"message"})
        EXCEPT !.message = "Iris Classification API is running"]

HealthBodyReadsModel ==
    [Response(200, {}, TRUE, {"status"})
        EXCEPT !.body_status = IF model = 0 THEN "unhealthy" ELSE "ok"]

HealthBody == [Response(200, {}, TRUE, {"status"}) EXCEPT !.body_status = "healthy"]

AppRoot(t) ==
    /\ deployment = "app"
    /\ proc = "serving"
    /\ thr[t].pc = "idle"
    /\ thr' = [thr EXCEPT ![t] =
                  Done([Idle EXCEPT !.req = [method |-> "GET", path |-> "/", body |-> NoBody]],
                       RootBody)]
    /\ UNCHANGED <<deployment, artifact, proc, model, loads>>

AppHealth(t) ==
    /\ deployment = "app"
    /\ proc = "serving"
    /\ thr[t].pc = "idle"
    /\ thr' = [thr EXCEPT ![t] =
                  Done([Idle EXCEPT !.req = [method |-> "GET", path |-> "/health", body |-> NoBody]],
                       HealthBody)]
    /\ UNCHANGED <<deployment, artifact, proc, model, loads>>

\* The request schema PredictionRequest, `features: List[float]`, required:
\* the body must be an object whose `features` is a list of numbers; the
\* schema puts no constraint on the length of the list, and a float field
\* accepts a non-finite number.
SchemaAccepts(j) ==
    /\ j.t = "object"
    /\ j.has
    /\ j.feat.t = "list"
    /\ \A i \in 1..Len(j.feat.elems) : j.feat.elems[i] \in {"num", "inf"}

Unprocessable422 == Response(422, {}, TRUE, {"detail"})

\* The framework's answer to an exception that escapes a route function.
FrameworkError500 == [Response(500, {}, FALSE, {}) EXCEPT !.text = "Internal Server Error"]

\* The route function, lines 45-61, on the module's classifier.
AppHandle(s, clf, p) ==
    IF ~SchemaAccepts(s.req.body) THEN Done(s, Unprocessable422)
    ELSE IF Predictable(s.req.body.feat)
    THEN Done([s EXCEPT !.clf = clf, !.ran = TRUE], Ok200(Result(p), {}))
    ELSE Done([s EXCEPT !.clf = clf, !.ran = TRUE, !.raised = PredictError],
              FrameworkError500)

AppPredict(t, body) ==
    /\ deployment = "app"
    /\ proc = "serving"
    /\ thr[t].pc = "idle"
    /\ \E p \in Classes :
          thr' = [thr EXCEPT ![t] =
                     AppHandle([Idle EXCEPT !.req = [method |-> "POST", path |-> "/predict",
                                                     body |-> body]],
                               model, p)]
    /\ UNCHANGED <<deployment, artifact, proc, model, loads>>

\* The response has been sent; the worker takes the next request.
Respond(t) ==
    /\ thr[t].pc = "done"
    /\ thr' = [thr EXCEPT ![t] = Idle]
    /\ UNCHANGED <<deployment, artifact, proc, model, loads>>

Init ==
    /\ deployment \in {"cloud_function", "app"}
    /\ artifact \in BOOLEAN
    /\ proc = IF deployment = "app" THEN "starting" ELSE "serving"
    /\ model = 0
    /\ loads = 0
    /\ thr = [t \in Threads |-> Idle]

Next ==
    \/ \E t \in Threads : \E req \in CfRequests : CfRequest(t, req)
    \/ \E t \in Threads : CfCheckCache(t)
    \/ \E t \in Threads : CfLoad(t)
    \/ \E t \in Threads : CfInfer(t)
    \/ AppStartup
    \/ \E t \in Threads : AppRoot(t)
    \/ \E t \in Threads : AppHealth(t)
    \/ \E t \in Threads : \E body \in Bodies : AppPredict(t, body)
    \/ \E t \in Threads : Respond(t)

Spec == Init /\ [][Next]_vars

\* ================================================================ claims
Cf == deployment = "cloud_function"
App == deployment = "app"
Answered(t) == thr[t].pc = "done"
KeyPresent(j) == j.t = "object" /\ j.has
HasHeader(h, name) == \E p \in h : p[1] = name
MissingMsg == "Missing features in request body"
LengthMsg == "Features must contain exactly 4 values"

\* C1: the model artifact is deserialized at most once per process, over
\* any sequence and interleaving of requests (with a readable artifact
\* every executed joblib.load deserializes it).
LoadAtMostOnce == artifact => loads <= 1

\* C2: in both deployments a POST whose body has no features key, or whose
\* features list has a length other than 4, is answered 400 and the
\* classifier is never run on it.
BadFeaturesAnswered400 ==
    \A t \in Threads :
        LET b == thr[t].req.body
        IN  (/\ Answered(t)
             /\ thr[t].req.method = "POST"
             /\ b.t = "object"
             /\ \/ ~b.has
                \/ b.feat.t = "list" /\ Len(b.feat.elems) # 4)
            => (thr[t].resp.status = 400 /\ ~thr[t].ran)

\* C3: in the serverless handler a request with no JSON body, an empty JSON
\* body or no features key gets 400 with the missing-features message, and
\* a features list of length n # 4 gets 400 with the length message and
\* received = n; the length message is never given when the key is missing.
ValidationMessages ==
    Cf => \A t \in Threads :
        LET b == thr[t].req.body
            r == thr[t].resp
        IN  (Answered(t) /\ thr[t].req.method # "OPTIONS") =>
              /\ ~KeyPresent(b) => (r.status = 400 /\ r.error = MissingMsg)
              /\ (KeyPresent(b) /\ b.feat.t = "list" /\ Len(b.feat.elems) # 4)
                    => /\ r.status = 400
                       /\ r.error = LengthMsg
                       /\ r.received = Len(b.feat.elems)

\* The response the claims C4 require of a valid request: 200 with exactly
\* the keys prediction, class_name and probabilities, prediction 0, 1 or 2,
\* class_name the entry of the fixed table at index prediction, and 3
\* probabilities.
GoodAnswer(r) ==
    /\ r.status = 200
    /\ r.json
    /\ r.keys = {"prediction", "class_name", "probabilities"}
    /\ r.prediction \in {0, 1, 2}
    /\ r.class_name = <<"setosa", "versicolor", "virginica">>[r.prediction + 1]
    /\ Len(r.probabilities) = 3

\* An answered POST whose features is a list of exactly 4 numbers of the
\* given kinds, with a readable artifact.
FourNumbers(t, kinds) ==
    LET b == thr[t].req.body
    IN  /\ Answered(t)
        /\ artifact
        /\ thr[t].req.method = "POST"
        /\ KeyPresent(b)
        /\ b.feat.t = "list"
        /\ Len(b.feat.elems) = 4
        /\ \A i \in 1..4 : b.feat.elems[i] \in kinds

MalformedAnswered400 ==
    \A t \in Threads :
        LET b == thr[t].req.body
        IN  (/\ Answered(t)
             /\ thr[t].req.method = "POST"
             /\ KeyPresent(b)
             /\ \/ b.feat.t \in {"null", "num"}
                \/ b.feat.t = "str" /\ Len(b.feat.elems) = 4
                \/ /\ b.feat.t = "list"
                   /\ Len(b.feat.elems) = 4
                   /\ \E i \in 1..4 : b.feat.elems[i] = "str")
            => thr[t].resp.status = 400

\* C6: in the serverless handler every exception raised while handling a
\* non-OPTIONS request is answered in that request with 500 carrying the
\* exception's message and type name; none escapes the handler, a 500 is
\* given only for a raised exception, and a request loads at most once.
ExceptionsSurfaced ==
    Cf => \A t \in Threads :
        LET r == thr[t].resp
        IN  /\ thr[t].tried <= 1
            /\ thr[t].raised # NoExc =>
                  /\ Answered(t)
                  /\ thr[t].req.method # "OPTIONS"
                  /\ r.status = 500
                  /\ r.keys = {"error", "type"}
                  /\ r.error = thr[t].raised.msg
                  /\ r.type = thr[t].raised.type
            /\ (Answered(t) /\ r.status = 500) => thr[t].raised # NoExc

\* A failed load and a validation TypeError are both answered 500.
LoadAndTypeErrorsAnswered ==
    /\ Cf
    /\ \E t1, t2 \in Threads :
          /\ Answered(t1) /\ thr[t1].raised.type = "FileNotFoundError"
          /\ thr[t1].resp.status = 500
          /\ Answered(t2) /\ thr[t2].raised.type = "TypeError"
          /\ thr[t2].resp.status = 500

\* C7: once the cache holds a classifier it never returns to Unloaded and the
\* cached instance is never replaced by a later request.
CacheNeverReplaced == [][model # 0 => model' = model]_vars

\* C8: in the serverless handler an OPTIONS request is answered 204 with an
\* empty body and the three Access-Control-Allow headers, and every other
\* response (200, 400 or 500) carries Access-Control-Allow-Origin: *.
CorsHeaders ==
    Cf => \A t \in Threads :
        LET r == thr[t].resp
        IN  Answered(t) =>
              /\ <<"Access-Control-Allow-Origin", "*">> \in r.headers
              /\ IF thr[t].req.method = "OPTIONS"
                 THEN /\ r.status = 204
                      /\ ~r.json /\ r.keys = {} /\ r.text = ""
                      /\ HasHeader(r.headers, "Access-Control-Allow-Methods")
                      /\ HasHeader(r.headers, "Access-Control-Allow-Headers")
                 ELSE r.status \in {200, 400, 500}

\* A preflight and a failed request are both answered.
PreflightAndErrorAnswered ==
    /\ Cf
    /\ \E t1, t2 \in Threads :
          /\ Answered(t1) /\ thr[t1].req.method = "OPTIONS"
          /\ Answered(t2) /\ thr[t2].resp.status = 500

\* C9: in the framework app GET /health is always answered 200 with
\* {"status": "healthy"} and GET / with 200 and the running message,
\* whatever was handled before, and neither reads or changes the model.
LivenessEndpoints ==
    [][App => \A t \in Threads :
          (thr[t].pc = "idle" /\ thr'[t].pc = "done" /\ thr'[t].req.method = "GET")
          => LET r == thr'[t].resp
             IN  /\ r.status = 200 /\ r.json
                 /\ thr'[t].req.path = "/health"
                       => (r.keys = {"status"} /\ r.body_status = "healthy")
                 /\ thr'[t].req.path = "/"
                       => /\ r.keys = {"message"}
                          /\ r.message = "Iris Classification API is running"
                 /\ thr'[t].clf = 0 /\ ~thr'[t].ran /\ thr'[t].tried = 0
                 /\ model' = model /\ loads' = loads]_vars

\* /health is answered while a predict request has just failed.
HealthAfterFailedPredict ==
    /\ App
    /\ \E t1, t2 \in Threads :
          /\ Answered(t1) /\ thr[t1].req.path = "/health"
          /\ Answered(t2) /\ thr[t2].req.path = "/predict" /\ thr[t2].resp.status = 500

\* C10: in the serverless handler a request answered 204 or 400 leaves the
\* cache unchanged and attempts no load; the cache changes only in the load
\* of a request that passed both validation checks; a load that raises
\* leaves the cache Unloaded.
ValidationPrecedesLoad ==
    [][Cf => \A t \in Threads :
          LET b == thr[t].req.body
          IN  /\ (thr'[t] # thr[t] /\ thr'[t].pc = "done"
                    /\ thr'[t].resp.status \in {204, 400})
                 => (model' = model /\ loads' = loads /\ thr'[t].tried = 0)
              /\ thr'[t].tried > thr[t].tried
                 => /\ thr[t].req.method # "OPTIONS"
                    /\ KeyPresent(b)
                    /\ b.feat.t \in {"str", "list"}
                    /\ Len(b.feat.elems) = 4
              /\ (thr'[t].raised = LoadError /\ thr[t].raised = NoExc)
                 => (model' = model /\ model' = 0)
              /\ (model' # model)
                 => \E u \in Threads : thr'[u].tried > thr[u].tried]_vars

\* A wrong-length request was answered 400 and a load has raised, with the
\* cache still Unloaded.
RejectedAndFailedLoad ==
    /\ Cf
    /\ model = 0
    /\ \E t1, t2 \in Threads :
          /\ Answered(t1) /\ thr[t1].resp.status = 400 /\ thr[t1].resp.error = LengthMsg
          /\ Answered(t2) /\ thr[t2].raised = LoadError
====
